---- MODULE Spec2Model ----
(***************************************************************************)
(* Model of the accessibility-checker crawl engine                         *)
(* (src/wcag-crawler/src/wcag-crawler.ts): the tiered crawler (lines       *)
(* 27-133) and the legacy axe-only crawler (lines 192-335), with the URL   *)
(* helpers they use and the tier registries of the rules module            *)
(* (src/unnamed/part_000, part_001); of the pure helpers evaluated on      *)
(* their own (FnSpec); and of the single-URL scanner                       *)
(* (src/axe-core-screen/src/axe-core-scan.ts, ScanSpec).                   *)
(*                                                                         *)
(* Strings are sequences of tokens.  A token is an atomic chunk of         *)
(* characters: the scheme "https://", a host chunk ("www", "agency", ...), *)
(* the dot ".", a path ("/", "/x") or a fragment ("#f").  startsWith,      *)
(* endsWith, slice and equality of strings are the sequence operations.    *)
(***************************************************************************)
EXTENDS Integers, Sequences, FiniteSets, TLC

VARIABLES
  variant,    \* which of the two programs of the file runs: "tiered" | "legacy"
  argv,       \* parsed command line: [start, domain, maxPages, tier]
  pc,         \* position of the async main function
  seed,       \* normalized seed URL
  domain,     \* domain / baseDomain
  queue,      \* queue: string[]
  visited,    \* visited: Set<string>
  results,    \* results: PageResult[]
  url,        \* the loop's current url
  browser,    \* "none" | "open" | "closed"
  output,     \* the JSON documents in the output file: none until it is
              \* written, then the one document written last
  exitCode,   \* process exit status, -1 while running
  \* ---- history (ghost) variables, not read by the program ----
  visitLog,   \* URLs in the order visited.add() was called
  enqLog,     \* [url, parent, pos] in the order URLs were put in the queue:
              \* parent is the page whose link it was, pos the link's place
              \* among that page's extracted links (seed first, no parent)
  discDepth,  \* URL -> crawl depth of its first discovery
  skipFired,  \* the "if (visited.has(url)) continue" branch was taken
  reseen,     \* a page linked to a URL that was already visited
  pageOut,    \* URL whose navigation succeeded -> what each rule returns on it
  outcome,    \* URL whose loop iteration ended -> how it ended: "ok", or the
              \* await that threw: "goto" | "rule" | "links"
  writes,     \* number of completed writes of the output file
  \* ---- evaluation of a pure function on its own ----
  probe,      \* [fn, raw, arg, out, n]: fn was applied n times starting from
              \* raw, the last time to arg, giving out
  \* ---- the extension's background worker ----
  requests,   \* the messages the worker's listener was called with, in
              \* order of arrival, each with the state of its promise chain
  \* ---- the extension's content script ----
  content     \* [now, due, sent]: milliseconds since the script was loaded,
              \* the time its pending timer is due, and the fetch_violations
              \* messages sent so far, each with the time it was sent at, the
              \* time its callback ran at and whether lastError was set

vars == <<variant, argv, pc, seed, domain, queue, visited, results, url,
          browser, output, exitCode, visitLog, enqLog, discDepth, skipFired,
          reseen, pageOut, outcome, writes, probe, requests, content>>

(***************************************************************************)
(* Bounds of the model                                                     *)
(***************************************************************************)
MaxPagesBound == 3   \* --maxPages ranges over 0..MaxPagesBound
MaxLinks == 2        \* a page holds at most MaxLinks anchors
MaxWww == 2          \* a probed host name starts with at most MaxWww "www." labels
MaxApply == 2        \* a probed function is applied at most MaxApply times in a row

(***************************************************************************)
(* Strings and the WHATWG URL class, as far as the crawler uses it         *)
(***************************************************************************)
Scheme == "https://"
PathToks == {"/", "/x", "/y"}
FragToks == {"#f"}
Null == <<"null">>
Undefined == <<"undefined">>
NotAUrl == <<"not a url">>

\* JavaScript truthiness of a string-or-null value
Truthy(s) == s # Null /\ s # Undefined /\ s # <<>>

Min(S) == CHOOSE x \in S : \A y \in S : x <= y

\* s.startsWith(p)
StartsWith(s, p) == Len(s) >= Len(p) /\ SubSeq(s, 1, Len(p)) = p

\* s.endsWith(p)
EndsWith(s, p) == Len(s) >= Len(p) /\ SubSeq(s, Len(s) - Len(p) + 1, Len(s)) = p

\* Index of the last host token of an absolute URL string
HostEnd(s) ==
  LET after == {i \in 2..Len(s) : s[i] \in PathToks \cup FragToks}
  IN IF after = {} THEN Len(s) ELSE Min(after) - 1

\* new URL(s) does not throw: a scheme, a non-empty host, then at most a
\* path and a fragment
CanParse(s) ==
  /\ Len(s) >= 2
  /\ s[1] = Scheme
  /\ HostEnd(s) >= 2
  /\ \A i \in 2..HostEnd(s) : s[i] \notin {Scheme, "not a url", "null", "undefined"}
  /\ LET rest == SubSeq(s, HostEnd(s) + 1, Len(s))
     IN \/ rest = <<>>
        \/ Len(rest) = 1
        \/ Len(rest) = 2 /\ rest[1] \in PathToks /\ rest[2] \in FragToks

\* new URL(s): the parsed components; an empty path is "/"
ParseUrl(s) ==
  LET rest == SubSeq(s, HostEnd(s) + 1, Len(s))
  IN [hostname |-> SubSeq(s, 2, HostEnd(s)),
      pathname |-> IF rest # <<>> /\ rest[1] \in PathToks THEN rest[1] ELSE "/",
      hash     |-> IF rest # <<>> /\ rest[Len(rest)] \in FragToks
                   THEN rest[Len(rest)] ELSE ""]

\* u.href: the serialization
Href(u) ==
  <<Scheme>> \o u.hostname \o <<u.pathname>>
    \o (IF u.hash = "" THEN <<>> ELSE <<u.hash>>)

Www == <<"www", ".">>

\* normalizeUrl of the tiered crawler
NormalizeUrl(raw) ==
  IF ~CanParse(raw) THEN Null
  ELSE LET u == ParseUrl(raw)
           h == IF StartsWith(u.hostname, Www)
                THEN SubSeq(u.hostname, Len(Www) + 1, Len(u.hostname))
                ELSE u.hostname
       IN Href([u EXCEPT !.hash = "", !.hostname = h])

\* normalizeUrl of the legacy crawler
LegacyNormalizeUrl(rawUrl) ==
  IF ~CanParse(rawUrl) THEN Null
  ELSE Href([ParseUrl(rawUrl) EXCEPT !.hash = ""])

\* sameDomain of the tiered crawler: both arguments go through new URL()
SameDomain(u, base) ==
  IF CanParse(u) /\ CanParse(base)
  THEN LET urlHost == ParseUrl(u).hostname
           baseHost == ParseUrl(base).hostname
       IN urlHost = baseHost \/ EndsWith(urlHost, <<".">> \o baseHost)
  ELSE FALSE

\* isSameDomain of the legacy crawler
IsSameDomain(u, baseDomain) ==
  IF CanParse(u) THEN EndsWith(ParseUrl(u).hostname, baseDomain) ELSE FALSE


(***************************************************************************)
(* Rule registry (rules module): a page is described by what each rule     *)
(* function returns when it is evaluated against it                        *)
(***************************************************************************)
tiers ==
  [basic    |-> <<"axeRule">>,
   standard |-> <<"axeRule", "rule_1_4_2_audio">>,
   premium  |-> <<"axeRule", "rule_1_4_2_audio">>]

TierNames == DOMAIN tiers

\* Mutant of tiersRevised: premium drops the baseline rule
tiersRevised_PremiumWithoutAxe ==
  [basic   |-> <<"axeRule">>,
   premium |-> <<"rule_1_4_2_audio", "rule_2_5_8_targetSizeMin">>]

\* The registry of the module's later version, with the target-size rule
tiersRevised ==
  [basic   |-> <<"axeRule">>,
   premium |-> <<"axeRule", "rule_1_4_2_audio", "rule_2_5_8_targetSizeMin">>]

\* The registry of the module's latest version, with the image rule
tiersImages ==
  [basic   |-> <<"axeRule", "rule_1_1_1_images">>,
   premium |-> <<"axeRule", "rule_1_4_2_audio", "rule_2_5_8_targetSizeMin",
                 "rule_1_1_1_images">>]

\* The documents a navigation can load: one without findings, one on which
\* the axe engine reports a violation and an autoplaying element exists
PageDoms ==
  { [axe |-> <<>>, audio |-> <<>>],
    [axe |-> <<"color-contrast">>, audio |-> <<"1.4.2">>] }

\* fn(page) for a rule function of the registry
RunRule(fn, dom) ==
  CASE fn = "axeRule" -> dom.axe
    [] fn = "rule_1_4_2_audio" -> dom.audio
    [] fn = "rule_2_5_8_targetSizeMin" -> dom.target
    [] fn = "rule_1_1_1_images" -> dom.images

\* (await Promise.all(activeRules.map((fn) => fn(page)))).flat()
RECURSIVE RunRules(_, _)
RunRules(fns, dom) ==
  IF fns = <<>> THEN <<>>
  ELSE RunRule(Head(fns), dom) \o RunRules(Tail(fns), dom)

(***************************************************************************)
(* Inputs                                                                  *)
(***************************************************************************)
Agency == <<"agency", ".", "gov">>

\* --start
Seeds ==
  { <<Scheme>> \o Agency,
    <<Scheme>> \o Www \o Agency \o <<"/", "#f">>,
    <<Scheme>> \o Www \o Www \o Agency \o <<"/x">>,
    NotAUrl }

\* --domain: absent (the default is the seed's bare host name), a bare host
\* name as in the usage notes ("-d agency.gov"), or given as a URL
DomainArgs == { Undefined, Agency, <<Scheme>> \o Agency }

\* The href values anchors of a page can have
Hrefs ==
  { <<Scheme>> \o Agency \o <<"/">>,
    <<Scheme>> \o Agency \o <<"/x">>,
    <<Scheme>> \o Agency \o <<"/x", "#f">>,
    <<Scheme>> \o Www \o Agency \o <<"/x">>,
    <<Scheme, "sub", ".">> \o Agency \o <<"/">>,
    <<Scheme, "not">> \o Agency \o <<"/">>,
    <<Scheme, "other", ".", "com", "/">>,
    NotAUrl }

\* page.$$eval("a[href]", ...): the anchors' hrefs in document order
LinkSeqs == UNION { [1..n -> Hrefs] : n \in 0..MaxLinks }

InSeq(q, x) == \E i \in 1..Len(q) : q[i] = x

(***************************************************************************)
(* extractLinks: normalized same-domain hrefs, first occurrences in        *)
(* document order (a Set keeps insertion order)                            *)
(***************************************************************************)
RECURSIVE ExtractLinksFrom(_, _, _)
ExtractLinksFrom(hrefs, base, acc) ==
  IF hrefs = <<>> THEN acc
  ELSE LET clean == NormalizeUrl(Head(hrefs))
           acc2 == IF Truthy(clean) /\ SameDomain(clean, base) /\ ~InSeq(acc, clean)
                   THEN Append(acc, clean) ELSE acc
       IN ExtractLinksFrom(Tail(hrefs), base, acc2)

ExtractLinks(hrefs, base) == ExtractLinksFrom(hrefs, base, <<>>)

RECURSIVE LegacyExtractLinksFrom(_, _, _)
LegacyExtractLinksFrom(hrefs, baseDomain, acc) ==
  IF hrefs = <<>> THEN acc
  ELSE LET clean == LegacyNormalizeUrl(Head(hrefs))
           acc2 == IF Truthy(clean) /\ IsSameDomain(clean, baseDomain) /\ ~InSeq(acc, clean)
                   THEN Append(acc, clean) ELSE acc
       IN LegacyExtractLinksFrom(Tail(hrefs), baseDomain, acc2)

LegacyExtractLinks(hrefs, baseDomain) == LegacyExtractLinksFrom(hrefs, baseDomain, <<>>)

\* The values domain / baseDomain can take: --domain, or the host of a seed
Domains ==
  {d \in DomainArgs : Truthy(d)} \cup
  {ParseUrl(s).hostname : s \in {x \in Seeds : CanParse(x)}} \cup
  {ParseUrl(NormalizeUrl(s)).hostname : s \in {x \in Seeds : CanParse(x)}}

\* What extractLinks can return for a base: its results over every hrefs
\* array a page can hold
ExtractLinksResults == [d \in Domains |-> {ExtractLinks(h, d) : h \in LinkSeqs}]

LegacyExtractLinksResults ==
  [d \in Domains |-> {LegacyExtractLinks(h, d) : h \in LinkSeqs}]

(***************************************************************************)
(* The enqueue loops: newLinks.forEach(...)                                *)
(***************************************************************************)
\* Mutant of EnqueueOne: the visited test left out
EnqueueOne_NoVisitedTest(l, q, vis, max) ==
  IF Cardinality(vis) + Len(q) >= max THEN q
  ELSE LET clean == NormalizeUrl(l)
       IN IF Truthy(clean) /\ ~InSeq(q, clean) THEN Append(q, clean) ELSE q

\* Mutant of EnqueueOne: the ceiling test looks at the queue alone
EnqueueOne_QueueLengthTest(l, q, vis, max) ==
  IF Len(q) >= max THEN q
  ELSE LET clean == NormalizeUrl(l)
       IN IF /\ Truthy(clean)
             /\ clean \notin vis
             /\ ~InSeq(q, clean)
             /\ ~\E i \in 1..Len(q) : NormalizeUrl(q[i]) = clean
          THEN Append(q, clean)
          ELSE q

\* tiered: one callback invocation, returns the queue after it
EnqueueOne(l, q, vis, max) ==
  IF Cardinality(vis) + Len(q) >= max THEN q
  ELSE LET clean == NormalizeUrl(l)
       IN IF /\ Truthy(clean)
             /\ clean \notin vis
             /\ ~InSeq(q, clean)
             /\ ~\E i \in 1..Len(q) : NormalizeUrl(q[i]) = clean
          THEN Append(q, clean)
          ELSE q

RECURSIVE EnqueueAll(_, _, _, _)
EnqueueAll(newLinks, q, vis, max) ==
  IF newLinks = <<>> THEN q
  ELSE EnqueueAll(Tail(newLinks), EnqueueOne(Head(newLinks), q, vis, max), vis, max)

\* legacy: one callback invocation
LegacyEnqueueOne(link, q, vis, maxPages) ==
  LET clean == LegacyNormalizeUrl(link)
  IN IF /\ Truthy(clean)
        /\ clean \notin vis
        /\ ~InSeq(q, clean)
        /\ Len(q) < maxPages
     THEN Append(q, clean)
     ELSE q

RECURSIVE LegacyEnqueueAll(_, _, _, _)
LegacyEnqueueAll(newLinks, q, vis, maxPages) ==
  IF newLinks = <<>> THEN q
  ELSE LegacyEnqueueAll(Tail(newLinks),
                        LegacyEnqueueOne(Head(newLinks), q, vis, maxPages),
                        vis, maxPages)


\* No function is being probed
\* The content script is not part of the run
NoContent == [now |-> 0, due |-> 0, sent |-> <<>>]

NoProbe == [fn |-> "none", raw |-> Undefined, arg |-> Undefined,
            out |-> Undefined, n |-> 0]

(***************************************************************************)
(* The crawlers' main functions                                            *)
(***************************************************************************)
Init ==
  /\ variant \in {"tiered", "legacy"}
  /\ argv \in [start : Seeds, domain : DomainArgs,
               maxPages : 0..MaxPagesBound, tier : TierNames]
  \* the legacy command line has no --tier option
  /\ variant = "legacy" => argv.tier = "basic"
  /\ pc = "Start"
  /\ seed = Undefined
  /\ domain = Undefined
  /\ queue = <<>>
  /\ visited = {}
  /\ results = <<>>
  /\ url = Undefined
  /\ browser = "none"
  /\ output = <<>>
  /\ exitCode = -1
  /\ visitLog = <<>>
  /\ enqLog = <<>>
  /\ discDepth = <<>>
  /\ skipFired = FALSE
  /\ reseen = FALSE
  /\ pageOut = <<>>
  /\ outcome = <<>>
  /\ writes = 0
  /\ requests = <<>>
  /\ content = NoContent
  /\ probe = NoProbe

\* PageResult records; an absent key is Undefined
ErrorResult(u, msg) == [url |-> u, violations |-> <<>>, error |-> msg]
LegacyErrorResult(u, msg) == [url |-> u, violations |-> Undefined, error |-> msg]
LegacyRecord(u, violations) == [url |-> u, violations |-> violations, error |-> Undefined]

\* argv.domain || new URL(seed).hostname
DefaultDomain(s) == IF Truthy(argv.domain) THEN argv.domain ELSE ParseUrl(s).hostname

\* Mutant of Start: the browser is launched before the seed is checked
Start_LaunchFirst ==
  /\ pc = "Start"
  /\ browser' = "open"
  /\ LET s == IF variant = "tiered" THEN NormalizeUrl(argv.start)
                                     ELSE LegacyNormalizeUrl(argv.start)
     IN IF ~Truthy(s)
        THEN /\ pc' = "Exited"
             /\ exitCode' = 1
             /\ UNCHANGED <<seed, domain, queue, enqLog, discDepth>>
        ELSE /\ seed' = s
             /\ domain' = DefaultDomain(s)
             /\ queue' = <<s>>
             /\ pc' = "Idle"
             /\ enqLog' = <<[url |-> s, parent |-> Undefined, pos |-> 0]>>
             /\ discDepth' = (s :> 0)
             /\ UNCHANGED exitCode
  /\ UNCHANGED <<content, requests, probe, writes, variant, argv, visited, results, url, output, visitLog,
                 skipFired, reseen, pageOut, outcome>>

\* Seed normalization up to browser launch.  An invalid seed ends the
\* process: the tiered crawler by the rejection of the main promise, the
\* legacy crawler by process.exit(1).
Start ==
  /\ pc = "Start"
  /\ LET s == IF variant = "tiered" THEN NormalizeUrl(argv.start)
                                     ELSE LegacyNormalizeUrl(argv.start)
     IN IF ~Truthy(s)
        THEN /\ pc' = "Exited"
             /\ exitCode' = 1
             /\ UNCHANGED <<seed, domain, queue, browser, enqLog, discDepth>>
        ELSE /\ seed' = s
             /\ domain' = DefaultDomain(s)
             /\ queue' = <<s>>
             /\ browser' = "open"
             /\ pc' = "Idle"
             /\ enqLog' = <<[url |-> s, parent |-> Undefined, pos |-> 0]>>
             /\ discDepth' = (s :> 0)
             /\ UNCHANGED exitCode
  /\ UNCHANGED <<content, requests, probe, writes, variant, argv, visited, results, url, output, visitLog,
                 skipFired, reseen, pageOut, outcome>>

\* Mutant of LoopCond: the ceiling test off by one
LoopCond_OffByOne == Len(queue) > 0 /\ Cardinality(visited) <= argv.maxPages

\* while (queue.length && visited.size < max)
LoopCond == Len(queue) > 0 /\ Cardinality(visited) < argv.maxPages

\* Mutant of Shift: queue.pop(), taking the newest entry
Shift_Pop(q) == [head |-> q[Len(q)], rest |-> SubSeq(q, 1, Len(q) - 1)]

\* Mutant of Shift: queue[0], the entry is read but stays in the queue
Shift_Peek(q) == [head |-> Head(q), rest |-> q]

\* url = queue.shift()
Shift(q) == [head |-> Head(q), rest |-> Tail(q)]

\* Loop head of either crawler: shift, skip if visited, else mark visited
Dequeue ==
  /\ pc = "Idle"
  /\ LoopCond
  /\ LET sh == Shift(queue)
     IN /\ queue' = sh.rest
        /\ IF sh.head \in visited
           THEN /\ skipFired' = TRUE
                /\ UNCHANGED <<visited, visitLog, url, pc>>
           ELSE /\ visited' = visited \cup {sh.head}
                /\ visitLog' = Append(visitLog, sh.head)
                /\ url' = sh.head
                /\ pc' = "Navigating"
                /\ UNCHANGED skipFired
  /\ UNCHANGED <<content, requests, probe, writes, variant, argv, seed, domain, results, browser, output,
                 exitCode, enqLog, discDepth, reseen, pageOut, outcome>>

\* History bookkeeping for an enqueue loop that turned q into q2 while
\* looking at the links cleanSeq (each as normalized by the loop)
LogEnqueue(q, q2, cleanSeq) ==
  LET added == SubSeq(q2, Len(q) + 1, Len(q2))
      cleans == {c \in {cleanSeq[i] : i \in 1..Len(cleanSeq)} : Truthy(c)}
      PosOf(c) == Min({i \in 1..Len(cleanSeq) : cleanSeq[i] = c})
  IN /\ enqLog' = enqLog \o
          [k \in 1..Len(added) |->
             [url |-> added[k], parent |-> url, pos |-> PosOf(added[k])]]
     /\ discDepth' =
          [u \in (DOMAIN discDepth) \cup cleans |->
             IF u \in DOMAIN discDepth THEN discDepth[u] ELSE discDepth[url] + 1]
     /\ reseen' = (reseen \/ \E c \in cleans : c \in visited)

\* ---- tiered crawler, body of the try block ----
\* Mutant of TieredNavigate: the catch puts the failed URL back for a retry
TieredNavigate_Retry ==
  /\ pc = "Navigating"
  /\ variant = "tiered"
  /\ \/ \E dom \in PageDoms :
          /\ pageOut' = (url :> dom) @@ pageOut
          /\ pc' = "LinkExtracting"
          /\ UNCHANGED <<results, outcome, queue, visited>>
     \/ /\ results' = Append(results, ErrorResult(url, <<"goto failed">>))
        /\ outcome' = (url :> "goto") @@ outcome
        /\ queue' = Append(queue, url)
        /\ visited' = visited \ {url}
        /\ pc' = "Idle"
        /\ UNCHANGED pageOut
  /\ UNCHANGED <<content, requests, probe, writes, variant, argv, seed, domain, url, browser, output,
                 exitCode, visitLog, enqLog, discDepth, skipFired, reseen>>

\* await page.goto(url): loads some document, or throws into the catch
TieredNavigate ==
  /\ pc = "Navigating"
  /\ variant = "tiered"
  /\ \/ \E dom \in PageDoms :
          /\ pageOut' = (url :> dom) @@ pageOut
          /\ pc' = "LinkExtracting"
          /\ UNCHANGED <<results, outcome>>
     \/ /\ results' = Append(results, ErrorResult(url, <<"goto failed">>))
        /\ outcome' = (url :> "goto") @@ outcome
        /\ pc' = "Idle"
        /\ UNCHANGED pageOut
  /\ UNCHANGED <<content, requests, probe, writes, variant, argv, seed, domain, queue, visited, url, browser,
                 output, exitCode, visitLog, enqLog, discDepth, skipFired,
                 reseen>>

\* await extractLinks(page, domain), then the enqueue loop; a throwing
\* $$eval lands in the catch
TieredExtractLinks ==
  /\ pc = "LinkExtracting"
  /\ variant = "tiered"
  /\ \/ \E newLinks \in ExtractLinksResults[domain] :
          LET q2 == EnqueueAll(newLinks, queue, visited, argv.maxPages)
              cleanSeq == [i \in 1..Len(newLinks) |-> NormalizeUrl(newLinks[i])]
          IN /\ queue' = q2
             /\ LogEnqueue(queue, q2, cleanSeq)
             /\ outcome' = (url :> "ok") @@ outcome
             /\ UNCHANGED results
     \/ /\ results' = Append(results, ErrorResult(url, <<"evaluate failed">>))
        /\ outcome' = (url :> "links") @@ outcome
        /\ UNCHANGED <<queue, enqLog, discDepth, reseen>>
  /\ pc' = "Idle"
  /\ UNCHANGED <<content, requests, probe, writes, variant, argv, seed, domain, visited, url, browser, output,
                 exitCode, visitLog, skipFired, pageOut>>

\* ---- legacy crawler, body of the try block ----
LegacyNavigate ==
  /\ pc = "Navigating"
  /\ variant = "legacy"
  /\ \/ \E dom \in PageDoms :
          /\ pageOut' = (url :> dom) @@ pageOut
          /\ pc' = "Scanning"
          /\ UNCHANGED <<results, outcome>>
     \/ /\ results' = Append(results, LegacyErrorResult(url, <<"goto failed">>))
        /\ outcome' = (url :> "goto") @@ outcome
        /\ pc' = "Idle"
        /\ UNCHANGED pageOut
  /\ UNCHANGED <<content, requests, probe, writes, variant, argv, seed, domain, queue, visited, url, browser,
                 output, exitCode, visitLog, enqLog, discDepth, skipFired,
                 reseen>>

\* runAxe(page) and results.push(record); a throwing evaluate lands in the
\* catch
LegacyScan ==
  /\ pc = "Scanning"
  /\ variant = "legacy"
  /\ \/ /\ results' = Append(results, LegacyRecord(url, pageOut[url].axe))
        /\ pc' = "LinkExtracting"
        /\ UNCHANGED outcome
     \/ /\ results' = Append(results, LegacyErrorResult(url, <<"evaluate failed">>))
        /\ outcome' = (url :> "rule") @@ outcome
        /\ pc' = "Idle"
  /\ UNCHANGED <<content, requests, probe, writes, variant, argv, seed, domain, queue, visited, url, browser,
                 output, exitCode, visitLog, enqLog, discDepth, skipFired,
                 reseen, pageOut>>

LegacyExtractLinksStep ==
  /\ pc = "LinkExtracting"
  /\ variant = "legacy"
  /\ \/ \E newLinks \in LegacyExtractLinksResults[domain] :
          LET q2 == LegacyEnqueueAll(newLinks, queue, visited, argv.maxPages)
              cleanSeq == [i \in 1..Len(newLinks) |-> LegacyNormalizeUrl(newLinks[i])]
          IN /\ queue' = q2
             /\ LogEnqueue(queue, q2, cleanSeq)
             /\ outcome' = (url :> "ok") @@ outcome
             /\ UNCHANGED results
     \/ /\ results' = Append(results, LegacyErrorResult(url, <<"evaluate failed">>))
        /\ outcome' = (url :> "links") @@ outcome
        /\ UNCHANGED <<queue, enqLog, discDepth, reseen>>
  /\ pc' = "Idle"
  /\ UNCHANGED <<content, requests, probe, writes, variant, argv, seed, domain, visited, url, browser, output,
                 exitCode, visitLog, skipFired, pageOut>>

\* ---- after the loop ----
\* Mutant of CloseBrowser: the browser is left open
CloseBrowser_Skip ==
  /\ pc = "Idle"
  /\ ~LoopCond
  /\ pc' = "Writing"
  /\ UNCHANGED <<content, requests, probe, writes, variant, argv, seed, domain, queue, visited, results, url,
                 output, exitCode, visitLog, enqLog, discDepth, skipFired,
                 reseen, pageOut, outcome, browser>>

\* await browser.close()
CloseBrowser ==
  /\ pc = "Idle"
  /\ ~LoopCond
  /\ browser' = "closed"
  /\ pc' = "Writing"
  /\ UNCHANGED <<content, requests, probe, writes, variant, argv, seed, domain, queue, visited, results, url,
                 output, exitCode, visitLog, enqLog, discDepth, skipFired,
                 reseen, pageOut, outcome>>

\* The elements of a sequence, last first
Reverse(q) == [i \in 1..Len(q) |-> q[Len(q) + 1 - i]]

\* Mutant of WriteOutput: the newest PageResult is written first
WriteOutput_Reversed ==
  /\ pc = "Writing"
  /\ pc' = "Done"
  /\ output' = <<Reverse(results)>>
  /\ writes' = writes + 1
  /\ exitCode' = 0
  /\ UNCHANGED <<content, requests, probe, variant, argv, seed, domain, queue, visited, results, url,
                 browser, visitLog, enqLog, discDepth, skipFired, reseen,
                 pageOut, outcome>>

\* await fs.outputJson(path, results); the main function returns
WriteOutput ==
  /\ pc = "Writing"
  /\ pc' = "Done"
  /\ output' = <<results>>
  /\ writes' = writes + 1
  /\ exitCode' = 0
  /\ UNCHANGED <<content, requests, probe, variant, argv, seed, domain, queue, visited, results, url,
                 browser, visitLog, enqLog, discDepth, skipFired, reseen,
                 pageOut, outcome>>

Next ==
  \/ Start
  \/ Dequeue
  \/ TieredNavigate
  \/ TieredExtractLinks
  \/ LegacyNavigate
  \/ LegacyScan
  \/ LegacyExtractLinksStep
  \/ CloseBrowser
  \/ WriteOutput

Spec == Init /\ [][Next]_vars

\* The crawl under the assumption that every await settles: the main
\* function is resumed after each of them, so a step that moves it to its
\* next position is eventually taken when one can be taken
LiveSpec == Init /\ [][Next]_vars /\ WF_pc(Next)

(***************************************************************************)
(* The pure functions on their own: an input is drawn, then the function   *)
(* is applied to it, and again to its own result                           *)
(***************************************************************************)
RECURSIVE WwwLabels(_)
WwwLabels(k) == IF k = 0 THEN <<>> ELSE Www \o WwwLabels(k - 1)

\* URL strings given to normalizeUrl: up to MaxWww leading "www." labels,
\* a host, then optionally a path and a fragment; and one unparsable string
UrlInputs ==
  { <<Scheme>> \o WwwLabels(k) \o h \o p \o f :
      k \in 0..MaxWww,
      h \in {Agency, <<"sub", ".">> \o Agency},
      p \in {<<>>, <<"/">>, <<"/x">>},
      f \in {<<>>, <<"#f">>} }
  \cup {NotAUrl}

\* A page as the rule functions see it: the ids of the violations axe
\* reports, the one "1.4.2" violation if an autoplaying media element
\* exists, one "2.5.8" violation per undersized target, the one "1.1.1"
\* violation if an informational image lacks alt text
RuleDoms ==
  [axe : {<<>>, <<"color-contrast">>, <<"color-contrast", "image-alt">>},
   audio : {<<>>, <<"1.4.2">>},
   target : {<<>>, <<"2.5.8">>, <<"2.5.8", "2.5.8">>},
   images : {<<>>, <<"1.1.1">>}]

(***************************************************************************)
(* The rule functions node by node (src/unnamed/part_001): a page is the   *)
(* elements of its document in document order, each with the attributes,   *)
(* computed style and bounding box the rules read, and the report axe      *)
(* gives for it                                                            *)
(***************************************************************************)
MaxElems == 2

\* const MIN_SIZE = 24;
MIN_SIZE == 24

\* el.outerHTML.length: markup shorter than both slice limits, between
\* them, and longer than both
MarkupChars == {120, 250, 400}

\* Tag and attributes of the elements the rules select or pass over
TargetKinds ==
  { <<"a", {"href"}>>, <<"a", {}>>, <<"button", {}>>,
    <<"input", {"type=submit"}>>, <<"input", {"type=button"}>>,
    <<"input", {"type=text"}>>, <<"div", {"role=button"}>>,
    <<"div", {"onclick"}>>, <<"div", {}>> }

\* getBoundingClientRect() width and height
Boxes == { <<16, 16>>, <<30, 16>>, <<16, 30>>, <<24, 24>>, <<0, 0>> }

\* getComputedStyle(el).display and .visibility; an element that is not
\* displayed has an empty box
StyledBoxes ==
  { sb \in [display : {"block", "inline", "inline-block", "none"},
            visibility : {"visible", "hidden"}, box : Boxes] :
      sb.display = "none" => sb.box = <<0, 0>> }

\* Every element a one-element page may hold for the pointer-target rule
TargetElems ==
  { [tag |-> k[1], attrs |-> k[2], id |-> i, w |-> sb.box[1], h |-> sb.box[2],
     display |-> sb.display, visibility |-> sb.visibility, cls |-> c,
     tabIndex |-> t, chars |-> n, inside |-> {}] :
      k \in TargetKinds, i \in {"", "go"}, sb \in StyledBoxes,
      c \in {{}, {"visually-hidden"}}, t \in {-1, 0}, n \in MarkupChars }

\* Media elements for the audio rule
MediaElems ==
  { [tag |-> g, attrs |-> a, id |-> "", w |-> 30, h |-> 16,
     display |-> "inline", visibility |-> "visible", cls |-> {},
     tabIndex |-> -1, chars |-> n, inside |-> {}] :
      g \in {"audio", "video"}, a \in SUBSET {"autoplay", "controls"},
      n \in MarkupChars }

\* Images for the images rule: no alt, alt="", alt=" ", alt="logo", a
\* presentation role, a decorative file name, a title; img.width and
\* img.height 0x0 (not rendered), 8x8, 10x10, 8x30 or 30x16; with and
\* without a decorative class; at top level or inside an ancestor with a
\* presentation role, an article, a figure or a link
ImageElems ==
  { [tag |-> "img", attrs |-> a, id |-> "", w |-> b[1], h |-> b[2],
     display |-> "inline", visibility |-> "visible", cls |-> c,
     tabIndex |-> -1, chars |-> n, inside |-> s] :
      n \in MarkupChars,
      a \in { {}, {"alt="}, {"alt= "}, {"alt=logo"}, {"role=presentation"},
              {"role=none"}, {"src=spacer.png"}, {"title"} },
      b \in { <<0, 0>>, <<8, 8>>, <<10, 10>>, <<8, 30>>, <<30, 16>> },
      c \in { {}, {"spacer"} },
      s \in { {}, {"role=presentation"}, {"role=none"}, {"article"},
              {"figure"}, {"a"} } }

\* The elements of the pages that hold more than one: links and ARIA
\* buttons with and without an id, undersized or not, an autoplaying audio
\* element and an image without alt
CoreElems ==
  { e \in TargetElems :
      /\ <<e.tag, e.attrs>> \in { <<"a", {"href"}>>, <<"div", {"role=button"}>> }
      /\ <<e.w, e.h>> \in { <<16, 16>>, <<24, 24>> }
      /\ e.display = "block" /\ e.visibility = "visible"
      /\ e.cls = {} /\ e.tabIndex = 0 /\ e.chars = 120 }
  \cup { e \in MediaElems : e.tag = "audio" /\ e.attrs = {"autoplay"} /\ e.chars = 120 }
  \cup { e \in ImageElems : /\ e.attrs = {} /\ <<e.w, e.h>> \in {<<30, 16>>, <<8, 8>>}
                            /\ e.cls = {} /\ e.chars = 120 /\ e.inside = {} }

\* The documents: one element of any kind, or up to MaxElems core elements
ElemSeqs ==
  { <<e>> : e \in TargetElems \cup MediaElems \cup ImageElems }
  \cup UNION { [1..n -> CoreElems] : n \in 0..MaxElems }

\* A node of an axe violation: axe's own fields, more than the three the
\* wrapper keeps.  Its html is the source axe recorded for the element:
\* the whole markup, or, for markup of more than 300 characters, the
\* opening tag alone, whatever its length
AxeNode(sel, chars) ==
  [html |-> [start |-> sel, chars |-> chars], target |-> <<sel>>,
   failureSummary |-> <<"Fix any of the following">>,
   impact |-> "serious", any |-> <<"color-contrast">>]

\* What axe.run() resolves to (its violations) on the pages the wrapper is
\* applied to
AxeRuns ==
  { <<>>,
    << [id |-> "color-contrast", description |-> <<"contrast">>,
        impact |-> "serious", tags |-> {"wcag2aa"},
        nodes |-> <<AxeNode("p", 40)>>] >>,
    << [id |-> "color-contrast", description |-> <<"contrast">>,
        impact |-> "serious", tags |-> {"wcag2aa"},
        nodes |-> <<AxeNode("p", 40), AxeNode("h1 > a", 300)>>],
       [id |-> "image-alt", description |-> <<"alt">>,
        impact |-> "critical", tags |-> {"wcag2aa"},
        nodes |-> <<AxeNode("img", 520)>>] >> }

Pages ==
  [elems : ElemSeqs, axe : {<<>>}] \cup [elems : {<<>>}, axe : AxeRuns]

\* el.outerHTML: the element's markup, its start and its length
OuterHTML(el) ==
  [start |-> [tag |-> el.tag, id |-> el.id, attrs |-> el.attrs, cls |-> el.cls],
   chars |-> el.chars]

\* html.slice(0, n): the first n characters of the markup
Slice(html, n) == [html EXCEPT !.chars = IF @ > n THEN n ELSE @]

\* The positions of the elements of a document, in document order
\* (Array.from(document.querySelectorAll(...)) before the filter)
Positions(elems) == [i \in 1..Len(elems) |-> i]

\* axeRule: each violation of axe with id, description, impact and, of
\* each node, html, target and failureSummary
axeRule(page) ==
  [i \in 1..Len(page.axe) |->
     [id |-> page.axe[i].id, description |-> page.axe[i].description,
      impact |-> page.axe[i].impact,
      nodes |-> [j \in 1..Len(page.axe[i].nodes) |->
                   [html |-> page.axe[i].nodes[j].html,
                    target |-> page.axe[i].nodes[j].target,
                    failureSummary |-> page.axe[i].nodes[j].failureSummary]]]]

\* el.hasAttribute("autoplay") && !el.hasAttribute("controls") of an
\* "audio, video" element
AudioOffender(el) ==
  /\ el.tag \in {"audio", "video"}
  /\ "autoplay" \in el.attrs
  /\ "controls" \notin el.attrs

\* rule_1_4_2_audio: one violation that lists every offender, each node
\* with its markup and target: []
rule_1_4_2_audio(page) ==
  LET offenders == SelectSeq(Positions(page.elems),
                   LAMBDA i : AudioOffender(page.elems[i]))
  IN IF Len(offenders) = 0 THEN <<>>
     ELSE << [id |-> "1.4.2", description |-> <<"Autoplay media">>,
              impact |-> "serious",
              nodes |-> [j \in 1..Len(offenders) |->
                           [html |-> Slice(OuterHTML(page.elems[offenders[j]]), 200),
                            target |-> <<>>]]] >>

\* A variant of the filter without the test of the image's own role
ImageOffender_NoRoleTest(el) ==
  LET isDecorative ==
        \/ el.inside \cap {"role=presentation", "role=none"} # {}
        \/ "spacer" \in el.cls
        \/ (el.w > 0 /\ el.h > 0 /\ el.w <= 10 /\ el.h <= 10)
        \/ "src=spacer.png" \in el.attrs
      hasValidAlt == "alt=logo" \in el.attrs
  IN /\ el.tag = "img"
     /\ "alt=" \notin el.attrs
     /\ ~isDecorative
     /\ ~hasValidAlt

\* The filter of rule_1_1_1_images on an "img" element: not a presentation
\* role, not alt="", not decorative by ancestor, class, size or file name,
\* informational (which the trailing "|| true" makes every image) and no
\* alt text left after trimming
ImageOffender(el) ==
  LET isDecorative ==
        \/ el.inside \cap {"role=presentation", "role=none"} # {}
        \/ "spacer" \in el.cls
        \/ (el.w > 0 /\ el.h > 0 /\ el.w <= 10 /\ el.h <= 10)
        \/ "src=spacer.png" \in el.attrs
      hasValidAlt == "alt=logo" \in el.attrs
      isInformational ==
        \/ el.inside \cap {"article", "figure", "a"} # {}
        \/ "title" \in el.attrs
        \/ TRUE
  IN /\ el.tag = "img"
     /\ "role=presentation" \notin el.attrs /\ "role=none" \notin el.attrs
     /\ "alt=" \notin el.attrs
     /\ ~isDecorative
     /\ isInformational /\ ~hasValidAlt

\* rule_1_1_1_images: one violation that lists every offender, each node
\* with its markup, target: [] and a failureMessage
rule_1_1_1_images(page) ==
  LET offenders == SelectSeq(Positions(page.elems),
                   LAMBDA i : ImageOffender(page.elems[i]))
  IN IF Len(offenders) = 0 THEN <<>>
     ELSE << [id |-> "1.1.1", description |-> <<"Informational images">>,
              impact |-> "serious",
              nodes |-> [j \in 1..Len(offenders) |->
                           [html |-> Slice(OuterHTML(page.elems[offenders[j]]), 200),
                            target |-> <<>>,
                            failureMessage |->
                              IF "alt= " \in page.elems[offenders[j]].attrs
                              THEN <<"Image has empty alt attribute">>
                              ELSE <<"Image missing alt attribute">>]]] >>

\* a[href], button, input[type=submit], input[type=button],
\* [role="button"], [onclick]
Interactive(el) ==
  \/ el.tag = "a" /\ "href" \in el.attrs
  \/ el.tag = "button"
  \/ el.tag = "input" /\ ("type=submit" \in el.attrs \/ "type=button" \in el.attrs)
  \/ "role=button" \in el.attrs
  \/ "onclick" \in el.attrs

\* A variant of the size test that leaves out the inline exception
TargetSizeOffender_NoInlineTest(el) ==
  LET visible == /\ el.display # "none" /\ el.visibility # "hidden"
                 /\ el.w > 0 /\ el.h > 0
      isVisuallyHiddenFocusable == "visually-hidden" \in el.cls /\ el.tabIndex >= 0
  IN (el.w < MIN_SIZE \/ el.h < MIN_SIZE) /\ visible /\ ~isVisuallyHiddenFocusable

\* (width < MIN_SIZE || height < MIN_SIZE) && !isInline && visible &&
\* !isVisuallyHiddenFocusable
TargetSizeOffender(el) ==
  LET isInline == el.display = "inline"
      visible == /\ el.display # "none" /\ el.visibility # "hidden"
                 /\ el.w > 0 /\ el.h > 0
      isVisuallyHiddenFocusable == "visually-hidden" \in el.cls /\ el.tabIndex >= 0
  IN (el.w < MIN_SIZE \/ el.h < MIN_SIZE)
     /\ ~isInline /\ visible /\ ~isVisuallyHiddenFocusable

\* el.tagName.toLowerCase() + (el.id ? `#${el.id}` : '')
TargetSelector(el) == IF el.id # "" THEN <<el.tag, "#", el.id>> ELSE <<el.tag>>

FlaggedByTargetSize(el) == Interactive(el) /\ TargetSizeOffender(el)

\* rule_2_5_8_targetSizeMin: one violation per undersized interactive
\* element, its one node with markup, a tag-and-id selector and a summary
rule_2_5_8_targetSizeMin(page) ==
  LET result == SelectSeq(Positions(page.elems),
                   LAMBDA i : FlaggedByTargetSize(page.elems[i]))
  IN [j \in 1..Len(result) |->
        [id |-> "2.5.8", description |-> <<"Target Size (Minimum)">>,
         impact |-> "moderate",
         nodes |-> << [html |-> Slice(OuterHTML(page.elems[result[j]]), 300),
                       target |-> <<TargetSelector(page.elems[result[j]])>>,
                       failureSummary |->
                         <<"Pointer target is only",
                           ToString(page.elems[result[j]].w), "x",
                           ToString(page.elems[result[j]].h), "px">>] >>]]

\* The rule functions by name
RuleNames ==
  {"axeRule", "rule_1_4_2_audio", "rule_1_1_1_images", "rule_2_5_8_targetSizeMin"}

RuleFunction(fn, page) ==
  CASE fn = "axeRule" -> axeRule(page)
    [] fn = "rule_1_4_2_audio" -> rule_1_4_2_audio(page)
    [] fn = "rule_1_1_1_images" -> rule_1_1_1_images(page)
    [] fn = "rule_2_5_8_targetSizeMin" -> rule_2_5_8_targetSizeMin(page)

\* document.querySelectorAll(selector) for a tag or tag#id selector: the
\* positions of the elements it matches
QuerySelectorAll(elems, selector) ==
  { i \in 1..Len(elems) :
      /\ elems[i].tag = selector[1]
      /\ Len(selector) > 1 => elems[i].id = selector[3] }

(***************************************************************************)
(* The highlighter content script (src/wcag-highlighter/content.js): the   *)
(* document is the sequence of its elements, those of the page first, then *)
(* what the script appended to document.body                               *)
(***************************************************************************)
\* An element of the live document: tag and id, dataset.wcagFlagged, the
\* outline style, and who made it ("page", or the script's "tooltip" and
\* "icon" with the position of the element they belong to)
LiveElement(tag, id) ==
  [tag |-> tag, id |-> id, wcagFlagged |-> FALSE, outline |-> "",
   made |-> "page", of |-> 0]

\* The pages the script runs in: up to MaxElems links and divs, with and
\* without an id
LivePages ==
  UNION { [1..n -> { LiveElement(t, i) : t \in {"a", "div"}, i \in {"", "go"} }] :
            n \in 0..MaxElems }

\* A selector querySelectorAll throws a SyntaxError for
BadSelector == <<"a", "#">>

LiveSelectors == { <<"a">>, <<"a", "#", "go">>, <<"div">>, BadSelector }

\* A violation with one node that has the given target
ViolationAt(target) ==
  [id |-> "2.5.8", description |-> <<"Target Size (Minimum)">>,
   impact |-> "moderate",
   nodes |-> << [html |-> <<"<", target, ">">>, target |-> target] >>]

\* The violations lists of the deliver_violations messages: none, one
\* node with one or two selectors, two violations with one selector each
Deliveries ==
  { <<>> }
  \cup { <<ViolationAt(<<s>>)>> : s \in LiveSelectors }
  \cup { <<ViolationAt(<<s, t>>)>> : s \in LiveSelectors, t \in LiveSelectors }
  \cup { <<ViolationAt(<<s>>), ViolationAt(<<t>>)>> :
           s \in LiveSelectors, t \in LiveSelectors }

\* createViolationIcon and the two appendChild calls: the tooltip div is
\* appended to document.body inside createViolationIcon, the icon div by
\* the caller
createViolationIcon(p) ==
  << [tag |-> "div", id |-> "", wcagFlagged |-> FALSE, outline |-> "",
      made |-> "tooltip", of |-> p],
     [tag |-> "div", id |-> "", wcagFlagged |-> FALSE, outline |-> "",
      made |-> "icon", of |-> p] >>

\* The body of elements.forEach: an element not yet flagged is outlined,
\* flagged and given an icon
HighlightElement(dom, p) ==
  IF ~dom[p].wcagFlagged
  THEN [dom EXCEPT ![p].outline = "3px solid red", ![p].wcagFlagged = TRUE]
       \o createViolationIcon(p)
  ELSE dom

\* elements.forEach over the static list querySelectorAll returned
RECURSIVE HighlightElements(_, _)
HighlightElements(dom, elements) ==
  IF elements = <<>> THEN dom
  ELSE HighlightElements(HighlightElement(dom, Head(elements)), Tail(elements))

\* One selector: try { querySelectorAll(selector); elements.forEach(...) }
\* catch (e) { }
HighlightSelector(dom, selector) ==
  IF selector = BadSelector THEN dom
  ELSE HighlightElements(dom,
         SelectSeq(Positions(dom),
                   LAMBDA i : i \in QuerySelectorAll(dom, selector)))

\* The selectors in the order the three nested forEach loops visit them
RECURSIVE SelectorsOf(_)
SelectorsOf(violations) ==
  IF violations = <<>> THEN <<>>
  ELSE LET nodes == Head(violations).nodes
           RECURSIVE OfNodes(_)
           OfNodes(ns) == IF ns = <<>> THEN <<>>
                          ELSE Head(ns).target \o OfNodes(Tail(ns))
       IN OfNodes(nodes) \o SelectorsOf(Tail(violations))

RECURSIVE HighlightSelectors(_, _)
HighlightSelectors(dom, selectors) ==
  IF selectors = <<>> THEN dom
  ELSE HighlightSelectors(HighlightSelector(dom, Head(selectors)), Tail(selectors))

\* highlightViolations(violations) on the live document
highlightViolations(dom, violations) ==
  HighlightSelectors(dom, SelectorsOf(violations))

\* The tier registries of the rules module, by version
Registries == [first |-> tiers, revised |-> tiersRevised, images |-> tiersImages]

crawlVars == <<variant, argv, pc, seed, domain, queue, visited, results, url,
               browser, output, exitCode, visitLog, enqLog, discDepth,
               skipFired, reseen, pageOut, outcome, writes, requests,
               content>>

FnInit ==
  /\ probe \in
       [fn : {"normalizeUrl", "legacy normalizeUrl"}, raw : UrlInputs,
        arg : {Undefined}, out : {Undefined}, n : {0}]
       \cup
       [fn : {"tiers"}, raw : [registry : DOMAIN Registries, dom : RuleDoms],
        arg : {Undefined}, out : {<<>>}, n : {0}]
       \cup
       [fn : RuleNames, raw : Pages, arg : {Undefined}, out : {<<>>}, n : {0}]
       \cup
       { [fn |-> "highlightViolations", raw |-> d, arg |-> Undefined,
          out |-> d, n |-> 0] : d \in LivePages }
  /\ variant = "none"
  /\ argv = Undefined
  /\ pc = "Probe"
  /\ seed = Undefined
  /\ domain = Undefined
  /\ queue = <<>>
  /\ visited = {}
  /\ results = <<>>
  /\ url = Undefined
  /\ browser = "none"
  /\ output = <<>>
  /\ exitCode = -1
  /\ visitLog = <<>>
  /\ enqLog = <<>>
  /\ discDepth = <<>>
  /\ skipFired = FALSE
  /\ reseen = FALSE
  /\ pageOut = <<>>
  /\ outcome = <<>>
  /\ writes = 0
  /\ requests = <<>>
  /\ content = NoContent

\* The next argument: the input, then the previous result
ProbeArg == IF probe.n = 0 THEN probe.raw ELSE probe.out

\* normalizeUrl(arg) of the tiered crawler
ApplyNormalizeUrl ==
  /\ probe.fn = "normalizeUrl"
  /\ probe.n < MaxApply
  /\ probe' = [probe EXCEPT !.arg = ProbeArg, !.out = NormalizeUrl(ProbeArg),
                            !.n = @ + 1]
  /\ UNCHANGED crawlVars

\* normalizeUrl(arg) of the legacy crawler
ApplyLegacyNormalizeUrl ==
  /\ probe.fn = "legacy normalizeUrl"
  /\ probe.n < MaxApply
  /\ probe' = [probe EXCEPT !.arg = ProbeArg, !.out = LegacyNormalizeUrl(ProbeArg),
                            !.n = @ + 1]
  /\ UNCHANGED crawlVars

\* One scan of the page under a tier not yet tried:
\* (await Promise.all(tiers[tier].map((fn) => fn(page)))).flat()
ApplyTier ==
  /\ probe.fn = "tiers"
  /\ LET reg == Registries[probe.raw.registry]
     IN \E t \in (DOMAIN reg) \ (DOMAIN probe.out) :
          probe' = [probe EXCEPT !.arg = t,
                                 !.out = (t :> RunRules(reg[t], probe.raw.dom)) @@ @,
                                 !.n = @ + 1]
  /\ UNCHANGED crawlVars

\* One rule function applied to the page: await fn(page)
ApplyRule ==
  /\ probe.fn \in RuleNames
  /\ probe.n = 0
  /\ probe' = [probe EXCEPT !.arg = probe.raw,
                            !.out = RuleFunction(probe.fn, probe.raw),
                            !.n = 1]
  /\ UNCHANGED crawlVars

\* One deliver_violations message received by the content script:
\* highlightViolations(msg.violations) on the document as it is now
ApplyHighlightViolations ==
  /\ probe.fn = "highlightViolations"
  /\ probe.n < MaxApply
  /\ \E v \in Deliveries :
       probe' = [probe EXCEPT
                   !.arg = [dom |-> probe.out, violations |-> v,
                            again |-> probe.n >= 1 /\ v = probe.arg.violations],
                   !.out = highlightViolations(probe.out, v),
                   !.n = @ + 1]
  /\ UNCHANGED crawlVars

FnNext ==
  \/ ApplyNormalizeUrl
  \/ ApplyLegacyNormalizeUrl
  \/ ApplyTier
  \/ ApplyRule
  \/ ApplyHighlightViolations

FnSpec == FnInit /\ [][FnNext]_vars


(***************************************************************************)
(* The single-URL scanner (src/axe-core-screen/src/axe-core-scan.ts).  It  *)
(* uses the variables of the same name: argv is [url, output], results     *)
(* holds the one ScanResult built and not yet written, outcome maps url to *)
(* the await that threw ("launch" | "newPage" | "goto" | "rule" | "write") *)
(***************************************************************************)
\* --url
ScanUrls == Seeds

ScanResult(u, violations) == [url |-> u, violations |-> violations, error |-> Undefined]

ScanErrorResult(u, msg) == [url |-> u, violations |-> <<>>, error |-> msg]

ScanInit ==
  /\ variant = "scanner"
  /\ argv \in [url : ScanUrls, output : {<<"out.json">>}]
  /\ pc = "Launch"
  /\ seed = Undefined
  /\ domain = Undefined
  /\ queue = <<>>
  /\ visited = {}
  /\ results = <<>>
  /\ url = Undefined
  /\ browser = "none"
  /\ output = <<>>
  /\ exitCode = -1
  /\ visitLog = <<>>
  /\ enqLog = <<>>
  /\ discDepth = <<>>
  /\ skipFired = FALSE
  /\ reseen = FALSE
  /\ pageOut = <<>>
  /\ outcome = <<>>
  /\ writes = 0
  /\ requests = <<>>
  /\ content = NoContent
  /\ probe = NoProbe

scanFixed == <<content, requests, probe, variant, argv, seed, domain, queue, visited, visitLog,
               enqLog, discDepth, skipFired, reseen>>

\* catch (error): the errorResult is built from error.message
ScanThrow(await, msg) ==
  /\ results' = <<ScanErrorResult(url', msg)>>
  /\ outcome' = (url' :> await)
  /\ pc' = "Catch"

\* const url = argv.url; await puppeteer.launch(...), outside the try: when
\* it throws, the main promise is rejected and the process ends
ScanLaunch ==
  /\ pc = "Launch"
  /\ url' = argv.url
  /\ \/ /\ browser' = "open"
        /\ pc' = "NewPage"
        /\ UNCHANGED <<outcome, exitCode>>
     \/ /\ outcome' = (url' :> "launch")
        /\ pc' = "Exited"
        /\ exitCode' = 1
        /\ UNCHANGED browser
  /\ UNCHANGED <<results, output, writes, pageOut>>
  /\ UNCHANGED scanFixed

\* await browser.newPage()
ScanNewPage ==
  /\ pc = "NewPage"
  /\ UNCHANGED <<url, browser, output, exitCode, writes, pageOut>>
  /\ \/ /\ pc' = "Goto"
        /\ UNCHANGED <<results, outcome>>
     \/ ScanThrow("newPage", <<"newPage failed">>)
  /\ UNCHANGED scanFixed

\* await page.goto(url): an unparsable url always throws
ScanGoto ==
  /\ pc = "Goto"
  /\ UNCHANGED <<url, browser, output, exitCode, writes>>
  /\ \/ /\ CanParse(url)
        /\ \E dom \in PageDoms : pageOut' = (url :> dom)
        /\ pc' = "RunAxe"
        /\ UNCHANGED <<results, outcome>>
     \/ /\ ScanThrow("goto", <<"goto failed">>)
        /\ UNCHANGED pageOut
  /\ UNCHANGED scanFixed

\* const violations = await runAxeScan(page); the result is prepared
ScanRunAxe ==
  /\ pc = "RunAxe"
  /\ UNCHANGED <<url, browser, output, exitCode, writes, pageOut>>
  /\ \/ /\ results' = <<ScanResult(url, pageOut[url].axe)>>
        /\ pc' = "Saving"
        /\ UNCHANGED outcome
     \/ ScanThrow("rule", <<"evaluate failed">>)
  /\ UNCHANGED scanFixed

\* await fs.ensureDir(...); await fs.writeJson(outputPath, result)
ScanSave ==
  /\ pc = "Saving"
  /\ UNCHANGED <<url, browser, exitCode, pageOut>>
  /\ \/ /\ output' = <<results[1]>>
        /\ writes' = writes + 1
        /\ pc' = "Finally"
        /\ UNCHANGED <<results, outcome>>
     \/ /\ ScanThrow("write", <<"write failed">>)
        /\ UNCHANGED <<output, writes>>
  /\ UNCHANGED scanFixed

\* The catch block: the errorResult is written, then process.exit(1) ends
\* the process at once; a throwing write leaves the catch by exception
ScanCatch ==
  /\ pc = "Catch"
  /\ \/ /\ output' = <<results[1]>>
        /\ writes' = writes + 1
        /\ pc' = "Exited"
        /\ exitCode' = 1
        /\ UNCHANGED outcome
     \/ /\ outcome' = (url :> "write")
        /\ pc' = "FinallyRethrow"
        /\ UNCHANGED <<output, writes, exitCode>>
  /\ UNCHANGED <<url, browser, results, pageOut>>
  /\ UNCHANGED scanFixed

\* finally { await browser.close() }, then the main function returns, or
\* the pending exception rejects the main promise
ScanFinally ==
  /\ pc \in {"Finally", "FinallyRethrow"}
  /\ browser' = "closed"
  /\ IF pc = "Finally"
     THEN pc' = "Done" /\ exitCode' = 0
     ELSE pc' = "Exited" /\ exitCode' = 1
  /\ UNCHANGED <<url, results, output, writes, pageOut, outcome>>
  /\ UNCHANGED scanFixed

ScanNext ==
  \/ ScanLaunch
  \/ ScanNewPage
  \/ ScanGoto
  \/ ScanRunAxe
  \/ ScanSave
  \/ ScanCatch
  \/ ScanFinally

ScanSpec == ScanInit /\ [][ScanNext]_vars


(***************************************************************************)
(* The background worker of the highlighter extension                      *)
(* (src/unnamed/part_002): its onMessage listener starts a fetch for each  *)
(* popup_scan and fetch_violations message and returns; the promise chain  *)
(* of each request then runs step by step, interleaved with the chains of  *)
(* the other requests                                                      *)
(***************************************************************************)
MaxRequests == 2

\* The tabs messages come from and go to
TabIds == {1, 2}

\* JavaScript values of the reply: arrays, strings, null and undefined
JsArray(items) == [type |-> "array", val |-> items]
JsString(s) == [type |-> "string", val |-> s]
JsNull == [type |-> "null", val |-> <<>>]
JsUndefined == [type |-> "undefined", val |-> <<>>]

\* A variant of the truth test that takes an empty array for false
JsTruthy_EmptyArrayFalsy(v) == v.type \in {"array", "string"} /\ v.val # <<>>

\* if (data.violations), data.error || "...": an array is true also when
\* empty, a string unless empty, null and undefined are false
JsTruthy(v) ==
  \/ v.type = "array"
  \/ v.type = "string" /\ v.val # <<>>

JsOr(v, w) == IF JsTruthy(v) THEN v ELSE w

\* A JSON object with the fields the worker reads
JsObject(violations, error) ==
  [type |-> "object", violations |-> violations, error |-> error]

\* How the fetch of http://localhost:5000/api/violations?url=... can
\* settle: rejected (service not running), a body that is not JSON, the
\* JSON null, { violations: [...] } with no, one or two violations,
\* { error: message }, { violations: null, error: message } and {}
ServiceReplies ==
  { [kind |-> "rejected", data |-> JsUndefined],
    [kind |-> "text", data |-> JsUndefined],
    [kind |-> "json", data |-> JsNull] }
  \cup
  { [kind |-> "json", data |-> JsObject(v, e)] :
      v \in { JsArray(<<>>), JsArray(<<ViolationAt(<<<<"a">>>>)>>),
              JsArray(<<ViolationAt(<<<<"a">>>>), ViolationAt(<<<<"div">>>>)>>) },
      e \in { JsUndefined } }
  \cup
  { [kind |-> "json", data |-> JsObject(v, e)] :
      v \in { JsUndefined, JsNull },
      e \in { JsUndefined, JsString(<<"URL not found in cache">>) } }

BgInit ==
  /\ requests = <<>>
  /\ content = NoContent
  /\ probe = NoProbe
  /\ variant = "worker"
  /\ argv = Undefined
  /\ pc = "Listening"
  /\ seed = Undefined
  /\ domain = Undefined
  /\ queue = <<>>
  /\ visited = {}
  /\ results = <<>>
  /\ url = Undefined
  /\ browser = "none"
  /\ output = <<>>
  /\ exitCode = -1
  /\ visitLog = <<>>
  /\ enqLog = <<>>
  /\ discDepth = <<>>
  /\ skipFired = FALSE
  /\ reseen = FALSE
  /\ pageOut = <<>>
  /\ outcome = <<>>
  /\ writes = 0

bgFixed == <<content, probe, variant, argv, pc, seed, domain, queue, visited, results,
             url, browser, output, exitCode, visitLog, enqLog, discDepth,
             skipFired, reseen, pageOut, outcome, writes>>

\* The listener is called with a popup_scan message (tab = msg.tabId) or a
\* fetch_violations message (tab = sender.tab.id): it calls fetch(api),
\* attaches the handlers and returns true
OnMessage ==
  /\ variant = "worker"
  /\ Len(requests) < MaxRequests
  /\ \E action \in {"popup_scan", "fetch_violations"}, tab \in TabIds :
       requests' = Append(requests,
                          [action |-> action, tab |-> tab, at |-> "fetch",
                           reply |-> [kind |-> "pending", data |-> JsUndefined],
                           err |-> <<>>, sent |-> <<>>, responses |-> <<>>])
  /\ UNCHANGED bgFixed

\* fetch(api) settles: rejected, the chain goes on in .catch; fulfilled,
\* it goes on in res => res.json()
FetchSettles ==
  /\ \E i \in 1..Len(requests), reply \in ServiceReplies :
       /\ requests[i].at = "fetch"
       /\ requests' =
            [requests EXCEPT
               ![i].reply = reply,
               ![i].at = IF reply.kind = "rejected" THEN "catch" ELSE "json",
               ![i].err = IF reply.kind = "rejected" THEN <<"Failed to fetch">>
                          ELSE <<>>]
  /\ UNCHANGED bgFixed

\* .then(res => res.json()): rejected for a body that is not JSON
ResJson ==
  /\ \E i \in 1..Len(requests) :
       /\ requests[i].at = "json"
       /\ requests' =
            [requests EXCEPT
               ![i].at = IF requests[i].reply.kind = "text" THEN "catch" ELSE "then",
               ![i].err = IF requests[i].reply.kind = "text"
                          THEN <<"Unexpected token">> ELSE <<>>]
  /\ UNCHANGED bgFixed

\* The message chrome.tabs.sendMessage puts on its way to a tab
TabMessage(tab, msg) == [to |-> tab, msg |-> msg]

\* .then(data => ...) of popup_scan
ThenPopupScan(r) ==
  LET data == r.reply.data
  IN IF data.type # "object"
     THEN [r EXCEPT !.at = "catch", !.err = <<"Cannot read properties of null">>]
     ELSE IF JsTruthy(data.violations)
     THEN [r EXCEPT
             !.at = "done",
             !.sent = Append(@, TabMessage(r.tab,
                        [action |-> "deliver_violations",
                         violations |-> data.violations])),
             !.responses = Append(@, [ok |-> TRUE,
                                      count |-> Len(data.violations.val)])]
     ELSE [r EXCEPT
             !.at = "done",
             !.responses = Append(@,
                [ok |-> FALSE,
                 error |-> JsOr(data.error, JsString(<<"No violations">>)).val])]

\* .catch(err => ...) of popup_scan
CatchPopupScan(r) ==
  [r EXCEPT !.at = "done",
            !.responses = Append(@, [ok |-> FALSE, error |-> r.err])]

\* .then(json => ...) of fetch_violations
ThenFetchViolations(r) ==
  LET json == r.reply.data
  IN IF json.type # "object"
     THEN [r EXCEPT !.at = "catch", !.err = <<"Cannot read properties of null">>]
     ELSE [r EXCEPT
             !.at = "done",
             !.sent = Append(@, TabMessage(r.tab,
                        IF JsTruthy(json.violations)
                        THEN [action |-> "deliver_violations",
                              violations |-> json.violations]
                        ELSE [action |-> "deliver_error",
                              error |-> JsOr(json.error,
                                 JsString(<<"No violations array in response.">>)).val])),
             !.responses = Append(@, [success |-> TRUE])]

\* .catch(err => ...) of fetch_violations
CatchFetchViolations(r) ==
  [r EXCEPT !.at = "done",
            !.sent = Append(@, TabMessage(r.tab, [action |-> "deliver_error",
                                                  error |-> r.err])),
            !.responses = Append(@, [success |-> FALSE, error |-> r.err])]

\* The second .then handler of a request runs
ThenHandler ==
  /\ \E i \in 1..Len(requests) :
       /\ requests[i].at = "then"
       /\ requests' =
            [requests EXCEPT
               ![i] = IF requests[i].action = "popup_scan"
                      THEN ThenPopupScan(requests[i])
                      ELSE ThenFetchViolations(requests[i])]
  /\ UNCHANGED bgFixed

\* The .catch handler of a request runs
CatchHandler ==
  /\ \E i \in 1..Len(requests) :
       /\ requests[i].at = "catch"
       /\ requests' =
            [requests EXCEPT
               ![i] = IF requests[i].action = "popup_scan"
                      THEN CatchPopupScan(requests[i])
                      ELSE CatchFetchViolations(requests[i])]
  /\ UNCHANGED bgFixed

BgNext ==
  \/ OnMessage
  \/ FetchSettles
  \/ ResJson
  \/ ThenHandler
  \/ CatchHandler

BgSpec == BgInit /\ [][BgNext]_vars


(***************************************************************************)
(* The request loop of the content script                                  *)
(* (src/wcag-highlighter/content.js:61-75): a timer set at load calls      *)
(* requestViolations, whose callback sets another timer if the send        *)
(* failed.  Time is counted in milliseconds and moves in steps of the      *)
(* shorter delay; a timer fires when it is due                             *)
(***************************************************************************)
MaxSends == 4

\* setTimeout(requestViolations, 500)
FirstDelay == 500

\* setTimeout(requestViolations, 1000)
RetryDelay == 1000

\* The time from a send to the call of its callback
CallbackWaits == {0, FirstDelay, RetryDelay}

\* The script has been evaluated in the page: the first timer is set
ContentInit ==
  /\ content = [now |-> 0, due |-> FirstDelay, sent |-> <<>>]
  /\ pc = "Timer"
  /\ variant = "content"
  /\ requests = <<>>
  /\ probe = NoProbe
  /\ argv = Undefined
  /\ seed = Undefined
  /\ domain = Undefined
  /\ queue = <<>>
  /\ visited = {}
  /\ results = <<>>
  /\ url = Undefined
  /\ browser = "none"
  /\ output = <<>>
  /\ exitCode = -1
  /\ visitLog = <<>>
  /\ enqLog = <<>>
  /\ discDepth = <<>>
  /\ skipFired = FALSE
  /\ reseen = FALSE
  /\ pageOut = <<>>
  /\ outcome = <<>>
  /\ writes = 0

contentFixed == <<requests, probe, variant, argv, seed, domain, queue, visited,
                  results, url, browser, output, exitCode, visitLog, enqLog,
                  discDepth, skipFired, reseen, pageOut, outcome, writes>>

\* Time passes while a timer is pending and not yet due
Tick ==
  /\ variant = "content"
  /\ pc = "Timer"
  /\ content.now < content.due
  /\ content' = [content EXCEPT !.now = @ + FirstDelay]
  /\ UNCHANGED <<pc, contentFixed>>

\* The timer fires: requestViolations() sends { action: "fetch_violations",
\* url } with a callback
requestViolations ==
  /\ variant = "content"
  /\ pc = "Timer"
  /\ content.now >= content.due
  /\ Len(content.sent) < MaxSends
  /\ content' = [content EXCEPT
                   !.sent = Append(@, [at |-> content.now, back |-> -1,
                                       lastError |-> "pending"])]
  /\ pc' = "Sent"
  /\ UNCHANGED contentFixed

\* A variant of the callback that sets the retry timer whatever happened
SendCallback_RetryAlways ==
  /\ pc = "Sent"
  /\ \E failed \in BOOLEAN, wait \in CallbackWaits :
       LET k == Len(content.sent)
           t == content.now + wait
       IN /\ content' = [content EXCEPT
                           !.now = t,
                           !.sent[k].back = t,
                           !.sent[k].lastError = IF failed THEN "set" ELSE "none",
                           !.due = t + RetryDelay]
          /\ pc' = "Timer"
  /\ UNCHANGED contentFixed

\* The callback of sendMessage runs, some time after the send: with
\* chrome.runtime.lastError set it warns and sets the retry timer, else it
\* does nothing
SendCallback ==
  /\ pc = "Sent"
  /\ \E failed \in BOOLEAN, wait \in CallbackWaits :
       LET k == Len(content.sent)
           t == content.now + wait
       IN /\ content' = [content EXCEPT
                           !.now = t,
                           !.sent[k].back = t,
                           !.sent[k].lastError = IF failed THEN "set" ELSE "none",
                           !.due = IF failed THEN t + RetryDelay ELSE @]
          /\ pc' = IF failed THEN "Timer" ELSE "Settled"
  /\ UNCHANGED contentFixed

ContentNext ==
  \/ Tick
  \/ requestViolations
  \/ SendCallback

\* A pending timer fires in the end: time passes and the event loop runs
\* the timer's function.  Nothing is assumed about the callback
ContentSpec ==
  /\ ContentInit
  /\ [][ContentNext]_vars
  /\ WF_vars(Tick)
  /\ WF_vars(requestViolations)

(***************************************************************************)
(* Properties                                                              *)
(***************************************************************************)
Running == pc \notin {"Start", "Exited"}

UrlsOf(rs) == {rs[i].url : i \in 1..Len(rs)}

CountUrl(rs, u) == Cardinality({i \in 1..Len(rs) : rs[i].url = u})

HostOf(u) == ParseUrl(u).hostname

\* C1: when a tiered run is Done, the output array holds exactly one
\* PageResult for each visited URL (and none for any other URL), whether
\* the URL's navigation succeeded or failed.
C1_OnePageResultPerVisited ==
  (variant = "tiered" /\ pc = "Done") =>
    /\ \A u \in visited : CountUrl(output[1], u) = 1
    /\ UrlsOf(output[1]) \subseteq visited

\* C2: in the tiered crawler every page whose navigation succeeded has, at
\* Done, a PageResult whose violations are the concatenation, in tier-list
\* order, of what the selected tier's rule functions return on that page.
C2_ViolationsAreTierConcat ==
  (variant = "tiered" /\ pc = "Done") =>
    \A u \in DOMAIN pageOut :
      \E i \in 1..Len(output[1]) :
        /\ output[1][i].url = u
        /\ output[1][i].error = Undefined
        /\ output[1][i].violations = RunRules(tiers[argv.tier], pageOut[u])

\* C3: in both crawlers the visited set never holds more than maxPages
\* URLs, for every maxPages >= 0.
C3_VisitedAtMostMaxPages == Cardinality(visited) <= argv.maxPages

\* The ceiling, not an empty queue, is what stopped the loop.
C3_Witness ==
  /\ pc = "Idle"
  /\ argv.maxPages >= 2
  /\ Cardinality(visited) = argv.maxPages
  /\ Len(queue) > 0

\* C4: in both crawlers no URL appears in more than one PageResult, also
\* when rule execution or link extraction throws after a successful
\* navigation.
C4_NoUrlTwiceInResults ==
  \A i, j \in 1..Len(results) : i # j => results[i].url # results[j].url

\* C5: in both crawlers a step of the enqueue loop appends a link only if
\* it is neither visited nor queued and visited.size + queue.size <
\* maxPages, and visited.size + queue.size <= maxPages holds after every
\* step when maxPages >= 1.
C5_EnqueueRespectsCeiling ==
  [][ /\ (pc = "LinkExtracting" /\ Len(queue') > Len(queue)) =>
           /\ Cardinality(visited) + Len(queue) < argv.maxPages
           /\ \A k \in (Len(queue) + 1)..Len(queue') :
                /\ queue'[k] \notin visited
                /\ ~InSeq(queue, queue'[k])
      /\ argv.maxPages >= 1 =>
           Cardinality(visited') + Len(queue') <= argv.maxPages ]_vars

\* C6: in both crawlers the queue and the visited set are disjoint, the
\* queue holds no URL twice, no URL is put in the queue a second time, and
\* the dequeue-time "already visited" skip never fires.
C6_QueueVisitedDisjoint ==
  /\ \A i \in 1..Len(queue) : queue[i] \notin visited
  /\ \A i, j \in 1..Len(queue) : i # j => queue[i] # queue[j]
  /\ \A i, j \in 1..Len(enqLog) : i # j => enqLog[i].url # enqLog[j].url
  /\ ~skipFired

\* A visited URL was linked again by a later page while URLs were queued.
C6_Witness ==
  /\ reseen
  /\ Cardinality(visited) >= 2
  /\ Len(queue) >= 1

\* C7: in both crawlers URLs are visited in the order of their first
\* append to the queue; a URL first discovered at a smaller depth is never
\* visited after one discovered at a greater depth; links of one page are
\* visited in their order on that page.
C7_VisitOrderIsFifo ==
  /\ Len(visitLog) <= Len(enqLog)
  /\ \A i \in 1..Len(visitLog) : visitLog[i] = enqLog[i].url
  /\ \A i, j \in 1..Len(visitLog) :
       i < j => discDepth[visitLog[i]] <= discDepth[visitLog[j]]
  /\ \A i, j \in 1..Len(visitLog) :
       (i < j /\ enqLog[i].parent = enqLog[j].parent) => enqLog[i].pos < enqLog[j].pos

\* Two links of the seed page were both visited, after the seed.
C7_Witness ==
  /\ Len(visitLog) = 3
  /\ enqLog[2].parent = seed
  /\ enqLog[3].parent = seed

\* C8: with maxPages = 1 and a seed that loads, a finished crawl of either
\* crawler has visited only the seed and its output is exactly one
\* PageResult, for the seed.
C8_MaxPagesOneSeedOnly ==
  (pc = "Done" /\ argv.maxPages = 1 /\ seed \in DOMAIN pageOut) =>
    /\ visited = {seed}
    /\ Len(output[1]) = 1
    /\ output[1][1].url = seed

\* C9: in the tiered crawler run with the default domain, sameDomain
\* accepts the domain's own host and its subdomains and rejects other
\* hosts: sameDomain("https://sub.agency.gov/y", "agency.gov") is true and
\* sameDomain("https://other.com", "agency.gov") is false.
C9_DefaultDomainAcceptsSubdomains ==
  (variant = "tiered" /\ Running /\ ~Truthy(argv.domain)) =>
    /\ SameDomain(<<Scheme, "sub", ".">> \o domain \o <<"/y">>, domain)
    /\ SameDomain(<<Scheme>> \o domain \o <<"/">>, domain)
    /\ ~SameDomain(<<Scheme, "other", ".", "com">>, domain)

\* C10: the legacy isSameDomain(url, base) is true exactly when the URL
\* parses and its host equals base or ends with "." + base; a malformed URL
\* yields false.
C10_LegacyDomainLabelBoundary ==
  (variant = "legacy" /\ Running) =>
    \A h \in Hrefs :
      IsSameDomain(h, domain) <=>
        /\ CanParse(h)
        /\ \/ HostOf(h) = domain
           \/ EndsWith(HostOf(h), <<".">> \o domain)

\* C11: in both crawlers a URL whose navigation failed has exactly one
\* PageResult, with error set to the failure message and violations
\* present as the empty sequence.
C11_NavFailureOneErrorRecord ==
  \A u \in DOMAIN outcome :
    outcome[u] = "goto" =>
      /\ CountUrl(results, u) = 1
      /\ \A i \in 1..Len(results) :
           results[i].url = u =>
             /\ results[i].error = <<"goto failed">>
             /\ results[i].violations = <<>>

C13_RuleThrowKeepsPageResult ==
  variant = "legacy" =>
    \A u \in (DOMAIN pageOut) \cap (DOMAIN outcome) :
      /\ outcome[u] # "rule"
      /\ \E i \in 1..Len(results) :
           /\ results[i].url = u
           /\ results[i].error = Undefined

\* C14: in both crawlers a page whose link extraction threw has no error
\* PageResult, and at most one PageResult.
C14_LinkFailureNoErrorRecord ==
  \A u \in DOMAIN outcome :
    outcome[u] = "links" =>
      /\ CountUrl(results, u) <= 1
      /\ \A i \in 1..Len(results) :
           results[i].url = u => results[i].error = Undefined

\* C15: when --start does not parse as an absolute URL, either crawler,
\* once started, has exited with a non-zero status, never launched the
\* browser, visited nothing and written no output.
C15_InvalidSeedExitsBeforeLaunch ==
  (~CanParse(argv.start) /\ pc # "Start") =>
    /\ pc = "Exited"
    /\ exitCode > 0
    /\ browser = "none"
    /\ visitLog = <<>>
    /\ output = <<>>

\* The tiered crawler has thrown "Invalid seed URL".
C15_Witness ==
  /\ variant = "tiered"
  /\ pc = "Exited"
  /\ ~CanParse(argv.start)

\* C16: normalizeUrl is idempotent on every parsable absolute URL, for the
\* tiered and the legacy normalizer: applied to its own result it returns
\* that result.
C16_NormalizeUrlIdempotent ==
  (probe.fn \in {"normalizeUrl", "legacy normalizeUrl"}
     /\ probe.n >= 2 /\ CanParse(probe.raw)) =>
    probe.out = probe.arg

\* Two URL strings that parse and differ at most in the fragment and in one
\* leading "www." label of the host
DiffersOnlyByWwwOrFragment(a, b) ==
  /\ CanParse(a)
  /\ CanParse(b)
  /\ ParseUrl(a).pathname = ParseUrl(b).pathname
  /\ \/ HostOf(a) = HostOf(b)
     \/ HostOf(a) = Www \o HostOf(b)
     \/ HostOf(b) = Www \o HostOf(a)

\* C17: in a tiered run, of two URLs that differ only in the fragment
\* and/or a single leading "www." host label at most one is ever visited.
C17_OneVisitPerNormalForm ==
  variant = "tiered" =>
    \A a, b \in visited : DiffersOnlyByWwwOrFragment(a, b) => a = b

\* The ids of a list of violations
Ids(vs) == {vs[i] : i \in 1..Len(vs)}

\* C18: in every tier registry, for one page, the violation ids that the
\* premium tier produces include every id that the basic tier produces.
C18_PremiumIdsIncludeBasicIds ==
  (probe.fn = "tiers" /\ {"basic", "premium"} \subseteq DOMAIN probe.out) =>
    Ids(probe.out.basic) \subseteq Ids(probe.out.premium)

\* On a page of the revised registry the basic tier reports something and
\* the premium tier reports more.
C18_Witness ==
  /\ probe.fn = "tiers"
  /\ probe.raw.registry = "revised"
  /\ {"basic", "premium"} \subseteq DOMAIN probe.out
  /\ Ids(probe.out.basic) # {}
  /\ Ids(probe.out.premium) # Ids(probe.out.basic)

\* C20: a finished run of the single-URL scanner has written exactly one
\* record: if nothing threw, the record holds the scan's violations and no
\* error and the status is zero; if the browser launch, newPage, goto or
\* the engine threw, the record holds an error and an empty violations
\* list and the status is non-zero.
C20_ScannerOneRecordPerRun ==
  (variant = "scanner" /\ pc \in {"Done", "Exited"}) =>
    IF url \notin DOMAIN outcome
    THEN /\ writes = 1
         /\ output[1].error = Undefined
         /\ output[1].violations = pageOut[url].axe
         /\ exitCode = 0
    ELSE outcome[url] \in {"launch", "newPage", "goto", "rule"} =>
           /\ writes = 1
           /\ output[1].error # Undefined
           /\ output[1].violations = <<>>
           /\ exitCode > 0

\* C21: in both crawlers the browser is closed once, when the loop has
\* ended and before the output is written; once it is closed it stays
\* closed and no page is navigated, evaluated or dequeued; a run that is
\* Done has closed it.
C21_BrowserClosedOnceBeforeWrite ==
  [][ /\ (browser # "closed" /\ browser' = "closed") =>
           /\ browser = "open"
           /\ pc = "Idle"
           /\ ~LoopCond
           /\ output = <<>>
           /\ writes = 0
      /\ browser = "closed" =>
           /\ browser' = "closed"
           /\ pc' \in {"Writing", "Done"}
           /\ visitLog' = visitLog
           /\ pageOut' = pageOut
           /\ outcome' = outcome
           /\ queue' = queue
      /\ writes' # writes => browser = "closed"
      /\ pc' = "Done" => browser' = "closed" ]_vars

\* A crawl of three pages is Done.
C21_Witness ==
  /\ pc = "Done"
  /\ browser = "closed"
  /\ Len(visitLog) = 3

\* Position of a URL in the order of visits
VisitPos(u) == Min({i \in 1..Len(visitLog) : visitLog[i] = u})

\* C22: in both crawlers the output file is written once, at Done and not
\* before, and it holds the accumulated PageResults, each for a visited
\* URL, in the order in which their URLs were visited.
C22_OutputOnceInVisitOrder ==
  /\ pc # "Done" => (output = <<>> /\ writes = 0)
  /\ pc = "Done" =>
       /\ writes = 1
       /\ output[1] = results
       /\ \A i \in 1..Len(output[1]) : InSeq(visitLog, output[1][i].url)
       /\ \A i, j \in 1..Len(output[1]) :
            i < j => VisitPos(output[1][i].url) <= VisitPos(output[1][j].url)

\* The written array holds the PageResults of two different pages.
C22_Witness ==
  /\ pc = "Done"
  /\ Len(output[1]) >= 2
  /\ output[1][1].url # output[1][Len(output[1])].url

\* C23: when every await settles, a crawl whose seed parses reaches Done;
\* the loop is left only with an empty queue or with visited.size >=
\* maxPages, and it runs at most maxPages iterations.
C23_CrawlReachesDone ==
  /\ (pc = "Idle") ~> (pc = "Done")
  /\ [](pc \in {"Writing", "Done"} =>
          (queue = <<>> \/ Cardinality(visited) >= argv.maxPages))
  /\ [](Len(visitLog) <= argv.maxPages /\ ~skipFired)

\* A crawl ended by the ceiling after maxPages iterations, URLs still queued.
C23_Witness ==
  /\ pc = "Done"
  /\ argv.maxPages >= 2
  /\ Len(visitLog) = argv.maxPages
  /\ queue # <<>>

\* C27: in the tiered crawler with maxPages >= 1 the loop is left only with
\* an empty queue, and then the visited set is the set of all URLs that
\* were ever put in the queue.
C27_TieredCeilingStrandsNothing ==
  (variant = "tiered" /\ argv.maxPages >= 1 /\ pc \in {"Writing", "Done"}) =>
    /\ queue = <<>>
    /\ visited = {enqLog[i].url : i \in 1..Len(enqLog)}

\* A tiered crawl ended at the ceiling, having visited three pages.
C27_Witness ==
  /\ variant = "tiered"
  /\ pc = "Done"
  /\ argv.maxPages = 3
  /\ Cardinality(visited) = 3

\* C28: when a run of the single-URL scanner that launched the browser has
\* ended, with status zero or not, the browser is closed.
C28_ScannerClosesBrowser ==
  (variant = "scanner" /\ pc \in {"Done", "Exited"}
     /\ ~(url \in DOMAIN outcome /\ outcome[url] = "launch")) =>
    browser = "closed"

\* The nodes of the violations a rule function returned
NodesOf(violations) ==
  UNION { { violations[i].nodes[j] : j \in 1..Len(violations[i].nodes) } :
            i \in 1..Len(violations) }

\* C24: every NodeResult a rule function emits has the fields html and
\* target, possibly failureSummary and no other, and its target holds at
\* least one selector
C24_NodeResultConformsToSchema ==
  (probe.fn \in RuleNames /\ probe.n = 1) =>
    \A node \in NodesOf(probe.out) :
      /\ {"html", "target"} \subseteq DOMAIN node
      /\ DOMAIN node \subseteq {"html", "target", "failureSummary"}
      /\ Len(node.target) >= 1

\* The claim's own words for the elements the pointer-target rule flags
ClaimedTarget(el) ==
  /\ \/ el.tag = "a" /\ "href" \in el.attrs
     \/ el.tag = "button"
     \/ el.tag = "input" /\ el.attrs \cap {"type=submit", "type=button"} # {}
     \/ el.attrs \cap {"role=button", "onclick"} # {}
  /\ (el.w < 24 \/ el.h < 24)
  /\ el.display \notin {"inline", "none"}
  /\ el.visibility # "hidden"
  /\ el.w # 0 /\ el.h # 0
  /\ ~("visually-hidden" \in el.cls /\ el.tabIndex >= 0)

Anchor16(display) ==
  [tag |-> "a", attrs |-> {"href"}, id |-> "", w |-> 16, h |-> 16,
   display |-> display, visibility |-> "visible", cls |-> {}, tabIndex |-> 0,
   chars |-> 120, inside |-> {}]

C26_TargetSelectorsMatchOnlyFlagged ==
  (probe.fn = "rule_2_5_8_targetSizeMin" /\ probe.n = 1) =>
    \A node \in NodesOf(probe.out) : \A k \in 1..Len(node.target) :
      \A i \in QuerySelectorAll(probe.raw.elems, node.target[k]) :
        FlaggedByTargetSize(probe.raw.elems[i])

\* The icons the script made for the element at a position
IconsOf(dom, p) == { i \in 1..Len(dom) : dom[i].made = "icon" /\ dom[i].of = p }

\* C29: after any sequence of deliver_violations messages each element of
\* the page has at most one icon and is outlined exactly if it has one, and
\* a message carrying the same violations as the one before it leaves the
\* document as it was
C29_HighlightOncePerElement ==
  (probe.fn = "highlightViolations" /\ probe.n >= 1) =>
    /\ \A p \in 1..Len(probe.out) :
         probe.out[p].made = "page" =>
           /\ Cardinality(IconsOf(probe.out, p)) <= 1
           /\ (probe.out[p].outline # "") = (IconsOf(probe.out, p) # {})
    /\ probe.arg.again => probe.out = probe.arg.dom

\* The reply carries a violations array
CarriesViolationsArray(reply) ==
  /\ reply.kind = "json"
  /\ reply.data.type = "object"
  /\ reply.data.violations.type = "array"

C31_RetryUntilSent ==
  /\ [](variant = "content" =>
         /\ Len(content.sent) >= 1 => content.sent[1].at = 500
         /\ \A i \in 2..Len(content.sent) :
              /\ content.sent[i - 1].lastError = "set"
              /\ content.sent[i].at = content.sent[i - 1].back + 1000)
  /\ \A k \in 1..(MaxSends - 1) :
       (Len(content.sent) = k /\ content.sent[k].lastError = "set")
         ~> (Len(content.sent) = k + 1)
  /\ [][(Len(content.sent) >= 1
          /\ content.sent[Len(content.sent)].lastError = "none")
        => content'.sent = content.sent]_vars

\* The last of MaxSends sends completed without lastError after every
\* send before it had failed
C31_Witness ==
  /\ variant = "content"
  /\ pc = "Settled"
  /\ Len(content.sent) = MaxSends
  /\ \A i \in 1..(MaxSends - 1) : content.sent[i].lastError = "set"
  /\ content.sent[MaxSends].lastError = "none"

\* C32: the html of every NodeResult a rule function emits, the axe
\* wrapper included, is at most 300 characters long
C32_NodeHtmlTruncated ==
  (probe.fn \in RuleNames /\ probe.n = 1) =>
    \A node \in NodesOf(probe.out) : node.html.chars <= 300

\* The images the claim exempts, in its words but for the size, which is
\* a parameter: a presentation role, alt="", a decorative ancestor, class
\* or file name, or a tiny size
ExemptImage(el, tiny) ==
  \/ el.attrs \cap {"role=presentation", "role=none"} # {}
  \/ "alt=" \in el.attrs
  \/ el.inside \cap {"role=presentation", "role=none"} # {}
  \/ "spacer" \in el.cls
  \/ "src=spacer.png" \in el.attrs
  \/ tiny

\* The alt attribute is missing or holds white space only
AltMissingOrBlank(el) == el.attrs \cap {"alt=", "alt=logo"} = {}

\* The images rule returned nothing if none of the given images is on the
\* page, and else one violation "1.1.1" whose nodes are those images in
\* document order
ImagesReported(expected) ==
  IF expected = <<>> THEN probe.out = <<>>
  ELSE /\ Len(probe.out) = 1
       /\ probe.out[1].id = "1.1.1"
       /\ Len(probe.out[1].nodes) = Len(expected)
       /\ \A j \in 1..Len(expected) :
            probe.out[1].nodes[j].html.start = OuterHTML(expected[j]).start

\* C33 as stated: the images rule reports, as the nodes of one violation
\* "1.1.1", exactly the img elements that are not exempt (role, alt="",
\* decorative ancestor, class or file name, width and height at most 10)
\* and whose alt is missing or blank
C33_ImagesFlaggedAtMostTenExempt ==
  (probe.fn = "rule_1_1_1_images" /\ probe.n = 1) =>
    ImagesReported(SelectSeq(probe.raw.elems,
      LAMBDA el : /\ el.tag = "img"
                  /\ ~ExemptImage(el, el.w <= 10 /\ el.h <= 10)
                  /\ AltMissingOrBlank(el)))

\* C33 amended: the same with the size exemption limited to images whose
\* width and height are both between 1 and 10; an image of width or
\* height 0 is not exempt
C33_ImagesFlaggedExactly ==
  (probe.fn = "rule_1_1_1_images" /\ probe.n = 1) =>
    ImagesReported(SelectSeq(probe.raw.elems,
      LAMBDA el : /\ el.tag = "img"
                  /\ ~ExemptImage(el, el.w \in 1..10 /\ el.h \in 1..10)
                  /\ AltMissingOrBlank(el)))

\* The rule was applied to a page with two images without alt and returned
\* one violation with two nodes
C33_Witness ==
  /\ probe.fn = "rule_1_1_1_images" /\ probe.n = 1
  /\ Len(probe.raw.elems) = 2
  /\ \A i \in 1..2 : probe.raw.elems[i].tag = "img" /\ probe.raw.elems[i].w = 30
  /\ Len(probe.out) = 1
  /\ Len(probe.out[1].nodes) = 2

====
